---- MODULE Spec2Model ----
(***************************************************************************)
(* Model of the git timeline plugin (src/server.rs): the scheduling loop   *)
(* (request_loop), the directory scan (update_commits), the repository     *)
(* walk on its own thread (get_commits_in_repo), the dedup gate            *)
(* (insert_new_commits_into_database) and the query adapter                *)
(* (get_compressed_events), over an event store kept as the sequence of    *)
(* its records in insertion order.                                         *)
(***************************************************************************)
EXTENDS Integers, Sequences, FiniteSets, TLC

\* ------------------------------------------------------------------ bounds

\* Largest number of commits the environment puts into one repository.
MaxCommits == 2

\* The width in bits of the model's i64, and the largest number of milliseconds
\* from the epoch chrono represents, both scaled down together.
WordBits == 20
MaxChronoMillis == 100000

\* The factor in time.seconds() * 1000.
MillisPerSecond == 1000

\* ------------------------------------------------------- the environment

\* The entries of the configured repo_folder, and which of them are directories.
Entries == {"notes.txt", "alpha", "beta"}
Dirs == {"alpha", "beta"}

\* The commits that exist.  A commit id is content-derived, so one id always
\* names the same message, author and time, in whichever repository it is.
CommitIds == {"a1", "a2", "x9", "z7"}

NoMessage == "<none>"

\* git2 Commit::message(): None for the commit x9.
MessageOf(id) == CASE id = "a1" -> "init"
                   [] id = "a2" -> "fix"
                   [] id = "z7" -> "merge"
                   [] OTHER -> NoMessage

AuthorOf(id) == IF id = "a2" THEN "bob" ELSE "ann"

\* git2 Time::seconds() and Time::offset_minutes() of the commit; the offset
\* of z7 is a whole day, which no FixedOffset represents.
SecondsOf(id) == CASE id = "a1" -> 10
                   [] id = "x9" -> 20
                   [] id = "z7" -> 25
                   [] OTHER -> 30

OffsetMinutesOf(id) == CASE id = "a1" -> 0
                         [] id = "a2" -> 120
                         [] id = "z7" -> 1440
                         [] OTHER -> -60

ThisPlugin == "timeline_plugin_git"
OtherPlugin == "timeline_plugin_other"

\* A record another plugin keeps in the shared store; it carries the id of a commit.
ForeignRecord == [plugin |-> OtherPlugin, id |-> "a1", timing |-> 10000,
                  event |-> [message |-> "", author |-> "", repository_name |-> ""]]

VARIABLES
    hist,       \* hist[d]: the commits reachable from the head of the repository in d
    store,      \* the event store: its records, in insertion order
    pc,         \* where request_loop is: idle, scan, join, gate, done
    visited,    \* the entries read_dir's iterator has yielded in this cycle
    cur,        \* the directory being processed
    worker,     \* the walker thread: none, running, finished
    walkRes,    \* what the walker thread's closure returned
    commits,    \* the Vec<Commit> handed to the dedup gate
    result,     \* what update_commits returned in this cycle
    trace,      \* the walker spawns and store calls of this cycle, in order
    reported,   \* the strings given to report_error_string in this cycle
    delay,      \* what request_loop returned last
    stable,     \* the last cycle returned Ok and no repository changed since
    qReturn,    \* what get_compressed_events returned just now
    norm,       \* one run of the time normalizer: its inputs and what it gave
    retrying    \* the last cycle failed transiently and no repository changed since

vars == <<hist, store, pc, visited, cur, worker, walkRes, commits, result,
          trace, reported, delay, stable, qReturn, norm, retrying>>

None == [tag |-> "None"]
Ok == [tag |-> "Ok"]
Err(kind, path) == [tag |-> "Err", kind |-> kind, path |-> path]
NoPath == ""

\* ------------------------------------------------------ the time normalizer

Panicked == [tag |-> "Panic"]

\* FixedOffset::west_opt(secs): None unless -86400 < secs < 86400.
WestOpt(secs) == IF -86400 < secs /\ secs < 86400
                 THEN [tag |-> "Some", west |-> secs]
                 ELSE None

\* The i64 of the model: a two's complement word of WordBits bits.
Wrap(n) ==
    LET m == 2 ^ WordBits
        r == n % m
    IN IF r >= m \div 2 THEN r - m ELSE r

\* time.seconds() * 1000: a product that does not fit the word panics in a
\* build with overflow checks and wraps in a build without them.
MulMillis(seconds, overflowChecks) ==
    LET p == seconds * MillisPerSecond
    IN IF p = Wrap(p) THEN [tag |-> "Some", ms |-> p]
       ELSE IF overflowChecks THEN Panicked
       ELSE [tag |-> "Some", ms |-> Wrap(p)]

\* offset.timestamp_millis_opt(ms): the DateTime<FixedOffset> of the instant ms
\* milliseconds after the epoch in UTC, labelled with the offset; None when
\* the instant is outside chrono's range.
TimestampMillisOpt(offset, ms) ==
    IF -MaxChronoMillis <= ms /\ ms <= MaxChronoMillis
    THEN [tag |-> "Some", instant |-> ms, west |-> offset.west]
    ELSE None

\* A normalizer that takes the milliseconds for the local time in the offset
\* (from_local_datetime), not for the instant.
ToUtcBuildFromLocal(seconds, offsetMinutes, overflowChecks) ==
    LET offset == WestOpt(offsetMinutes * 60)
        ms == MulMillis(seconds, overflowChecks)
    IN IF offset = None \/ ms = Panicked THEN Panicked
       ELSE LET t == TimestampMillisOpt(offset, ms.ms)
            IN IF t = None THEN Panicked
               ELSE [tag |-> "Some", utc |-> t.instant + t.west * MillisPerSecond]

\* Lines 229 to 233 in a build with or without overflow checks: the offset, the
\* timestamp in it, and DateTime::<Utc>::from, which keeps the instant and drops
\* the offset.  The unwrap() of a None panics.
ToUtcBuild(seconds, offsetMinutes, overflowChecks) ==
    LET offset == WestOpt(offsetMinutes * 60)
        ms == MulMillis(seconds, overflowChecks)
    IN IF offset = None \/ ms = Panicked THEN Panicked
       ELSE LET t == TimestampMillisOpt(offset, ms.ms)
            IN IF t = None THEN Panicked
               ELSE [tag |-> "Some", utc |-> t.instant]

\* The normalizer on the commits of the repositories, whose products fit the
\* word, so that both builds give the same.
ToUtc(seconds, offsetMinutes) == ToUtcBuild(seconds, offsetMinutes, TRUE)

\* ------------------------------------------------------ the repository walk

\* The revwalk from the head under Sort::TIME: newest commit first.
RECURSIVE Revwalk(_)
Revwalk(S) ==
    IF S = {} THEN <<>>
    ELSE LET newest == CHOOSE c \in S : \A o \in S : SecondsOf(o) <= SecondsOf(c)
         IN <<newest>> \o Revwalk(S \ {newest})

\* The struct Commit built for one visited commit.
ParsedCommit(id, utc, repoName) ==
    [id |-> id, message |-> MessageOf(id), time |-> utc,
     repository_name |-> repoName, author |-> AuthorOf(id)]

\* The loop that stops at a commit without a message and keeps what it parsed.
RECURSIVE WalkLoopPartial(_, _, _, _, _)
WalkLoopPartial(walk, i, parsed, path, repoName) ==
    IF i > Len(walk) THEN [tag |-> "Ok", commits |-> parsed]
    ELSE LET id == walk[i]
             utc == ToUtc(SecondsOf(id), OffsetMinutesOf(id))
         IN IF MessageOf(id) = NoMessage THEN [tag |-> "Ok", commits |-> parsed]
            ELSE IF utc = Panicked THEN Panicked
            ELSE WalkLoopPartial(walk, i + 1,
                                 Append(parsed, ParsedCommit(id, utc.utc, repoName)),
                                 path, repoName)

\* The loop over the revwalk, from step i with the commits parsed so far: a
\* commit without a message returns the error and drops what was parsed.
RECURSIVE WalkLoop(_, _, _, _, _)
WalkLoop(walk, i, parsed, path, repoName) ==
    IF i > Len(walk) THEN [tag |-> "Ok", commits |-> parsed]
    ELSE LET id == walk[i]
             utc == ToUtc(SecondsOf(id), OffsetMinutesOf(id))
         IN IF MessageOf(id) = NoMessage THEN Err("ReadCommitMessage", path)
            ELSE IF utc = Panicked THEN Panicked
            ELSE WalkLoop(walk, i + 1,
                          Append(parsed, ParsedCommit(id, utc.utc, repoName)),
                          path, repoName)

\* path.file_name() as a string: the last component of the entry's path.  The
\* entries of the folder all have a last component that is valid UTF-8.
RepoName(path) == path

\* What the walker thread's closure can return for the directory at path.
\* Repository::open and a step of the walk fail when the environment makes them
\* fail (not a repository, corruption); push_head fails on a head without commits.
WalkOutcomes(path) ==
    {Err("ReadRepository", path), Err("WalkCommitGraph", path)}
    \cup (IF hist[path] = {}
          THEN {Err("AppendHead", path)}
          ELSE {WalkLoop(Revwalk(hist[path]), 1, <<>>, path, RepoName(path))})

\* ------------------------------------------------------------ the store

\* The event database is a collaborator (crate::db): find(filter) yields the
\* records that pass the filter in the store's order, register_events appends
\* the batch, and either call can fail.

\* The CommitEvent built from a parsed commit.
CommitEvent(c) ==
    [timing |-> c.time, id |-> c.id, plugin |-> ThisPlugin,
     event |-> [author |-> c.author, message |-> c.message,
                repository_name |-> c.repository_name]]

\* A query whose result is not used: no id counts as inserted.
AlreadyInsertedNone(S, ids) == <<>>

\* The query without the plugin filter: any record with one of the ids counts.
AlreadyInsertedAnyPlugin(S, ids) ==
    LET hit(r) == \E i \in 1..Len(ids) : ids[i] = r.id
        found == SelectSeq(S, hit)
    IN [i \in 1..Len(found) |-> found[i].id]

\* find(plugin filter AND id $in ids), collected, mapped to the records' ids.
AlreadyInserted(S, ids) ==
    LET hit(r) == r.plugin = ThisPlugin /\ \E i \in 1..Len(ids) : ids[i] = r.id
        found == SelectSeq(S, hit)
    IN [i \in 1..Len(found) |-> found[i].id]

\* The loop without its contains() test: every walked commit is inserted.
RECURSIVE ToInsertUnchecked(_, _, _)
ToInsertUnchecked(cs, i, already) ==
    IF i > Len(cs) THEN <<>>
    ELSE <<CommitEvent(cs[i])>> \o ToInsertUnchecked(cs, i + 1, already)

\* The loop that compares against the first id the query returned only.
RECURSIVE ToInsertFirstOnly(_, _, _)
ToInsertFirstOnly(cs, i, already) ==
    IF i > Len(cs) THEN <<>>
    ELSE (IF already # <<>> /\ already[1] = cs[i].id
          THEN <<>> ELSE <<CommitEvent(cs[i])>>)
         \o ToInsertFirstOnly(cs, i + 1, already)

\* The loop that keeps the commits whose id the query did not return.
RECURSIVE ToInsert(_, _, _)
ToInsert(cs, i, already) ==
    IF i > Len(cs) THEN <<>>
    ELSE (IF \E k \in 1..Len(already) : already[k] = cs[i].id
          THEN <<>> ELSE <<CommitEvent(cs[i])>>)
         \o ToInsert(cs, i + 1, already)

\* A register_events that stores the first record of the batch only.
RegisterEventsFirstOnly(S, batch) ==
    IF batch = <<>> THEN S ELSE S \o <<batch[1]>>

\* A register_events that replaces the collection's content by the batch.
RegisterEventsReplacing(S, batch) == batch

\* database.register_events(&insert): the batch is appended to the collection.
RegisterEvents(S, batch) == S \o batch

Event(op, path, recs) == [op |-> op, path |-> path, recs |-> recs]

\* ------------------------------------------------------------------- Init

Init ==
    /\ hist = [d \in Dirs |-> {}]
    /\ store = <<ForeignRecord>>
    /\ pc = "idle"
    /\ visited = {}
    /\ cur = NoPath
    /\ worker = "none"
    /\ walkRes = None
    /\ commits = <<>>
    /\ result = None
    /\ trace = <<>>
    /\ reported = <<>>
    /\ delay = None
    /\ stable = FALSE
    /\ qReturn = None
    /\ norm = None
    /\ retrying = FALSE

\* A return of update_commits: request_loop goes on with the report.
Return(r) ==
    /\ pc' = "done"
    /\ result' = r
    /\ cur' = NoPath
    /\ commits' = <<>>

\* -------------------------------------------------------- the environment

\* Somebody commits to the repository in d while the plugin is idle.
NewCommit(d, id) ==
    /\ pc = "idle"
    /\ id \notin hist[d]
    /\ Cardinality(hist[d]) < MaxCommits
    /\ hist' = [hist EXCEPT ![d] = @ \cup {id}]
    /\ stable' = FALSE
    /\ retrying' = FALSE
    /\ qReturn' = None
    /\ UNCHANGED <<norm, store, pc, visited, cur, worker, walkRes, commits, result,
                   trace, reported, delay>>

\* ------------------------------------------------------- update_commits

\* request_loop is invoked and update_commits calls read_dir, which fails or
\* gives the iterator over the entries.
ReadDir ==
    /\ pc = "idle"
    /\ visited' = {}
    /\ trace' = <<>>
    /\ reported' = <<>>
    /\ qReturn' = None
    /\ \/ /\ pc' = "scan"
          /\ result' = None
          /\ UNCHANGED <<cur, commits>>
       \/ Return(Err("ReadRepositoriesDirectory", NoPath))
    /\ UNCHANGED <<norm, retrying, hist, store, worker, walkRes, delay, stable>>

\* One turn of the while loop up to the call of get_commits_in_repo, which
\* derives the repository name and spawns the walker thread.
NextEntry ==
    /\ pc = "scan"
    /\ qReturn' = None
    /\ \/ /\ Return(Err("ReadRepositoriesDirectory", NoPath))
          /\ UNCHANGED <<visited, worker, trace>>
       \/ /\ visited = Entries
          /\ Return(Ok)
          /\ UNCHANGED <<visited, worker, trace>>
       \/ \E entry \in Entries \ visited :
            /\ visited' = visited \cup {entry}
            /\ \/ /\ Return(Err("CheckFileType", NoPath))
                  /\ UNCHANGED <<worker, trace>>
               \/ /\ entry \notin Dirs
                  /\ UNCHANGED <<pc, cur, commits, result, worker, trace>>
               \/ /\ entry \in Dirs
                  /\ cur' = entry
                  /\ worker' = "running"
                  /\ trace' = Append(trace, Event("spawn", entry, <<>>))
                  /\ pc' = "join"
                  /\ UNCHANGED <<commits, result>>
    /\ UNCHANGED <<norm, retrying, hist, store, walkRes, reported, delay, stable>>

\* The walker thread runs its closure to the end.
WalkerRun ==
    /\ worker = "running"
    /\ \E r \in WalkOutcomes(cur) : walkRes' = r
    /\ worker' = "finished"
    /\ qReturn' = None
    /\ UNCHANGED <<norm, retrying, hist, store, pc, visited, cur, commits, result, trace,
                   reported, delay, stable>>

\* handle.join() returns: the walk's error, a panic of the thread as an error,
\* or the commits, which go to the dedup gate.
Join ==
    /\ pc = "join"
    /\ worker = "finished"
    /\ worker' = "none"
    /\ walkRes' = None
    /\ qReturn' = None
    /\ IF walkRes.tag = "Ok"
       THEN /\ commits' = walkRes.commits
            /\ pc' = "gate"
            /\ UNCHANGED <<cur, result>>
       ELSE IF walkRes.tag = "Err"
       THEN Return(walkRes)
       ELSE Return(Err("JoinHandle", NoPath))
    /\ UNCHANGED <<norm, retrying, hist, store, visited, trace, reported, delay, stable>>

\* insert_new_commits_into_database: the query for the ids already stored, then
\* the batch insert of the others.  Either store call can fail; a failed insert
\* may have written the first records of the batch.
InsertNewCommits ==
    /\ pc = "gate"
    /\ qReturn' = None
    /\ LET ids == [i \in 1..Len(commits) |-> commits[i].id]
           insert == ToInsert(commits, 1, AlreadyInserted(store, ids))
           find == Event("find", cur, <<>>)
           register == Event("register_events", cur, insert)
       IN \/ /\ Return(Err("LoadCommitIds", NoPath))
             /\ trace' = Append(trace, find)
             /\ UNCHANGED store
          \/ /\ Return(Err("CollectExistingCommits", NoPath))
             /\ trace' = Append(trace, find)
             /\ UNCHANGED store
          \/ /\ insert = <<>>
             /\ trace' = Append(trace, find)
             /\ pc' = "scan"
             /\ cur' = NoPath
             /\ commits' = <<>>
             /\ UNCHANGED <<store, result>>
          \/ /\ insert # <<>>
             /\ trace' = trace \o <<find, register>>
             /\ \/ /\ store' = RegisterEvents(store, insert)
                   /\ pc' = "scan"
                   /\ cur' = NoPath
                   /\ commits' = <<>>
                   /\ UNCHANGED result
                \/ /\ \E n \in 0..(Len(insert) - 1) :
                        store' = RegisterEvents(store, SubSeq(insert, 1, n))
                   /\ Return(Err("InsertIntoDatabase", NoPath))
    /\ UNCHANGED <<norm, retrying, hist, visited, worker, walkRes, reported, delay, stable>>

\* ---------------------------------------------------------- request_loop

FifteenMinutes == 15

\* A request_loop that reports only the errors that name a repository.
ErrorReportsWithPath(r) ==
    IF r.tag = "Err" /\ r.path # NoPath
    THEN <<[text |-> "Unable to refresh recent commits", cause |-> r]>>
    ELSE <<>>

\* What request_loop gives to report_error_string for update_commits' result.
ErrorReports(r) ==
    IF r.tag = "Err"
    THEN <<[text |-> "Unable to refresh recent commits", cause |-> r]>>
    ELSE <<>>

\* A request_loop that stops the loop after a failed cycle.
NextDelayUnlessFailed(r) ==
    IF r.tag = "Err" THEN None ELSE [tag |-> "Some", minutes |-> FifteenMinutes]

\* What request_loop returns: Some(Duration::try_minutes(15).unwrap()).
NextDelay(r) == [tag |-> "Some", minutes |-> FifteenMinutes]

\* The errors of a store call or of a read of the filesystem, which the
\* environment causes in one cycle and may not cause in the next.
TransientErrors == {"ReadRepositoriesDirectory", "CheckFileType", "ReadRepository",
                    "WalkCommitGraph", "LoadCommitIds", "CollectExistingCommits",
                    "InsertIntoDatabase"}

\* update_commits has returned: request_loop reports an error and returns
\* the delay to the next invocation.
Reschedule ==
    /\ pc = "done"
    /\ reported' = reported \o ErrorReports(result)
    /\ delay' = NextDelay(result)
    /\ stable' = (result = Ok)
    /\ retrying' = (result.tag = "Err" /\ result.kind \in TransientErrors)
    /\ pc' = "idle"
    /\ qReturn' = None
    /\ UNCHANGED <<norm, hist, store, visited, cur, worker, walkRes, commits, result,
                   trace>>

\* ------------------------------------------------- get_compressed_events

\* The time ranges callers ask for, in milliseconds.
TimeRanges == {[start |-> 0, end |-> 40000],
               [start |-> 20000, end |-> 40000],
               [start |-> 50000, end |-> 60000]}

\* Database::generate_find_plugin_filter(Plugin::get_type()).
PluginFilter(r) == r.plugin = ThisPlugin

\* Database::generate_range_filter(range): the record's timing, an instant,
\* intersects the range.
RangeFilter(r, range) == range.start <= r.timing /\ r.timing <= range.end

\* What the cursor of find(filter) yields: the records that pass both
\* filters, in the store's order.
Cursor(S, range) ==
    LET pass(r) == PluginFilter(r) /\ RangeFilter(r, range)
    IN SelectSeq(S, pass)

\* A summary titled with the commit's message.
CompressedEventTitledByMessage(t) ==
    [title |-> t.event.message, time |-> t.timing, data |-> t.event]

CompressedEvent(t) ==
    [title |-> t.event.repository_name, time |-> t.timing, data |-> t.event]

\* The loop that ends at an error item and returns what it has built.
RECURSIVE QueryLoopPartial(_, _, _, _)
QueryLoopPartial(items, i, res, failAt) ==
    IF i > Len(items) \/ i = failAt THEN [tag |-> "Ok", events |-> res]
    ELSE QueryLoopPartial(items, i + 1, Append(res, CompressedEvent(items[i])), failAt)

\* The while loop over the cursor from item i, with the result built so far;
\* item failAt of the stream is an error, and v? returns it.
RECURSIVE QueryLoop(_, _, _, _)
QueryLoop(items, i, res, failAt) ==
    IF i > Len(items) THEN [tag |-> "Ok", events |-> res]
    ELSE IF i = failAt THEN Err("Stream", NoPath)
    ELSE QueryLoop(items, i + 1, Append(res, CompressedEvent(items[i])), failAt)

\* get_compressed_events: failAt = 0 is a find that fails.
GetCompressedEvents(S, range, failAt) ==
    IF failAt = 0 THEN Err("Find", NoPath)
    ELSE QueryLoop(Cursor(S, range), 1, <<>>, failAt)

\* handle.join() is the blocking join of std::thread, called without an await:
\* from the spawn to its return the asynchronous context that runs
\* get_commits_in_repo does nothing else.
AsyncBlocked == pc = "join"

\* A caller queries a range; the call runs on the asynchronous context.
Query(range, failAt) ==
    /\ ~AsyncBlocked
    /\ qReturn' = [tag |-> "Returned", range |-> range, failAt |-> failAt,
                   value |-> GetCompressedEvents(store, range, failAt)]
    /\ UNCHANGED <<norm, retrying, hist, store, pc, visited, cur, worker, walkRes, commits,
                   result, trace, reported, delay, stable>>

\* ------------------------------------------------------------------ Spec

Next ==
    \/ \E d \in Dirs, id \in CommitIds : NewCommit(d, id)
    \/ ReadDir
    \/ NextEntry
    \/ WalkerRun
    \/ Join
    \/ InsertNewCommits
    \/ Reschedule
    \/ \E range \in TimeRanges :
         \E failAt \in 0..(Len(Cursor(store, range)) + 1) : Query(range, failAt)

Spec == Init /\ [][Next]_vars

\* ------------------------------------------- the time normalizer, alone

\* The commit times the normalizer is run on: seconds and offsets inside and
\* outside what the word, chrono and FixedOffset represent, and both builds.
TimeSeconds == {-2100, -1049, -525, -101, -100, -1, 0, 1, 30, 100, 101, 524,
                525, 1049, 2098, 2100}
TimeOffsets == {-1440, -1439, -720, -60, 0, 60, 120, 840, 1439, 1440}

TimeInit ==
    /\ Init!1 /\ Init!2 /\ Init!3 /\ Init!4 /\ Init!5 /\ Init!6 /\ Init!7
    /\ Init!8 /\ Init!9 /\ Init!10 /\ Init!11 /\ Init!12 /\ Init!13 /\ Init!14
    /\ Init!16
    /\ norm \in [seconds : TimeSeconds, offsetMinutes : TimeOffsets,
                 overflowChecks : BOOLEAN, out : {None}]

\* The walker normalizes the time of one commit.
Normalize ==
    /\ norm.out = None
    /\ norm' = [norm EXCEPT !.out =
                    ToUtcBuild(norm.seconds, norm.offsetMinutes, norm.overflowChecks)]
    /\ UNCHANGED <<hist, store, pc, visited, cur, worker, walkRes, commits,
                   result, trace, reported, delay, stable, qReturn, retrying>>

TimeNext == Normalize

TimeSpec == TimeInit /\ [][TimeNext]_vars

\* -------------------------------------------------------------- FairSpec

\* The steps of one invocation of request_loop.
CycleStep ==
    \/ ReadDir
    \/ NextEntry
    \/ WalkerRun
    \/ Join
    \/ InsertNewCommits
    \/ Reschedule

\* The scheduling loop and the repositories, without the callers of the query.
CycleNext ==
    \/ \E d \in Dirs, id \in CommitIds : NewCommit(d, id)
    \/ CycleStep

\* request_loop always returns Some(delay), so the host invokes it again, and
\* an invocation that has begun runs to its return.
FairSpec == Init /\ [][CycleNext]_vars /\ WF_vars(CycleStep)

\* ----------------------------------------------------------------- claims

\* The positions of this plugin's records in a store, and their event ids.
OwnPositions(S) == {i \in 1..Len(S) : S[i].plugin = ThisPlugin}
OwnIds(S) == {S[i].id : i \in OwnPositions(S)}

\* The register_events calls of the cycle so far.
InsertCalls(t) == {i \in 1..Len(t) : t[i].op = "register_events"}

\* C1: when a cycle has returned Ok and no repository has changed since, the
\* next cycle makes no insert call and leaves the store as it is, step by step.
C1_Idempotent ==
    [][(stable /\ pc # "idle") => (store' = store /\ InsertCalls(trace') = {})]_vars

\* A second cycle over unchanged repositories has walked and queried both
\* repositories, whose commits the first cycle stored.
C1_Witness ==
    /\ stable
    /\ pc = "done"
    /\ result = Ok
    /\ OwnIds(store) = {"a1", "a2"}
    /\ Cardinality({i \in 1..Len(trace) : trace[i].op = "find"}) = 2

\* The commits of a walked batch whose id no record of this plugin in S carries.
NotYetStored(S, W) ==
    LET fresh(c) == c.id \notin OwnIds(S)
    IN SelectSeq(W, fresh)

\* C2: a run of the dedup gate appends to the store records of the walked
\* commits whose id is not yet the id of a record of this plugin, one each, in
\* the walk's order, and nothing else; a run that returns Ok appends all of them.
C2_DedupGate ==
    [][pc = "gate" =>
        LET new == NotYetStored(store, commits)
            n == Len(store') - Len(store)
        IN /\ n \in 0..Len(new)
           /\ SubSeq(store', 1, Len(store)) = store
           /\ \A k \in 1..n :
                LET r == store'[Len(store) + k]
                IN r.plugin = ThisPlugin /\ r.id = new[k].id /\ r.timing = new[k].time
           /\ pc' = "scan" => n = Len(new)]_vars

\* The store held a1, the walk of alpha gave a2 and a1, and the gate has
\* inserted a2 alone.
C2_Witness ==
    /\ pc = "scan"
    /\ hist["alpha"] = {"a1", "a2"}
    /\ trace # <<>>
    /\ LET last == trace[Len(trace)]
       IN /\ last.op = "register_events"
          /\ last.path = "alpha"
          /\ Len(last.recs) = 1
          /\ last.recs[1].id = "a2"
    /\ store[Len(store)].id = "a2"
    /\ OwnIds(store) = {"a1", "a2"}

\* C3: the store never holds two records of this plugin with the same event id.
C3_NoDuplicates ==
    \A i, j \in OwnPositions(store) : store[i].id = store[j].id => i = j

\* Both directories hold the commit a1, a cycle has walked both and the store
\* holds a1 once.
C3_Witness ==
    /\ pc = "done"
    /\ result = Ok
    /\ "a1" \in hist["alpha"] /\ "a1" \in hist["beta"]
    /\ Cardinality({i \in 1..Len(trace) : trace[i].op = "find"}) = 2
    /\ Cardinality({i \in OwnPositions(store) : store[i].id = "a1"}) = 1

\* The errors the walker thread's closure returns.
WalkerErrors == {"ReadRepository", "WalkCommitGraph", "AppendHead", "ReadCommitMessage"}

\* A repository the walk of which succeeds when nothing else goes wrong.
Walkable(d) ==
    /\ hist[d] # {}
    /\ \A id \in hist[d] :
         /\ MessageOf(id) # NoMessage
         /\ ToUtc(SecondsOf(id), OffsetMinutesOf(id)) # Panicked

\* C4: when update_commits has returned the walker's error for one repository,
\* the commits of every walkable sibling directory are in the store, wherever
\* the sibling comes in the enumeration.
C4_SiblingsPersisted ==
    (pc = "done" /\ result.tag = "Err" /\ result.kind \in WalkerErrors) =>
        \A d \in Dirs \ {result.path} : Walkable(d) => hist[d] \subseteq OwnIds(store)

\* The commits the walk of d visits: those before which, newest first, every
\* commit has a message and a representable time.
VisitedByWalk(d) ==
    {id \in hist[d] :
        \A o \in hist[d] : SecondsOf(o) > SecondsOf(id) =>
            /\ MessageOf(o) # NoMessage
            /\ ToUtc(SecondsOf(o), OffsetMinutesOf(o)) # Panicked}

\* C5: when the walk of a repository visits a commit without a message, the
\* join hands back an error that names the repository's path, and
\* get_commits_in_repo returns it without a store query or an insert, so no
\* commit parsed before the failing one is stored.
C5_MissingMessage ==
    [][(pc = "join" /\ pc' # "join"
        /\ \E id \in VisitedByWalk(cur) : MessageOf(id) = NoMessage) =>
          /\ pc' = "done"
          /\ result'.tag = "Err"
          /\ result'.path = cur
          /\ store' = store
          /\ trace' = trace]_vars

\* The walk of alpha parsed a2, then met x9, which has no message: the cycle
\* ends with the error for alpha and a2 is not stored.
C5_Witness ==
    /\ pc = "done"
    /\ result = Err("ReadCommitMessage", "alpha")
    /\ hist["alpha"] = {"a2", "x9"}
    /\ "a2" \notin OwnIds(store)
    /\ trace[Len(trace)] = Event("spawn", "alpha", <<>>)

\* The errors of the directory scan itself.
ScanErrors == {"ReadRepositoriesDirectory", "CheckFileType"}

\* The walker spawns of the cycle so far for one entry.
Spawns(t, e) == {i \in 1..Len(t) : t[i].op = "spawn" /\ t[i].path = e}

\* C6: when update_commits has returned and the scan itself did not fail, the
\* walker was invoked exactly once for each directory and never for another
\* entry, and no error is due to a non-directory entry.
C6_EveryDirectoryWalked ==
    (pc = "done" /\ ~(result.tag = "Err" /\ result.kind \in ScanErrors)) =>
        /\ \A d \in Dirs : Cardinality(Spawns(trace, d)) = 1
        /\ \A e \in Entries \ Dirs : Spawns(trace, e) = {}

\* C7: whenever request_loop has returned, after a cycle that succeeded or
\* failed, its return value is Some(15 minutes), and a cycle that has ended can
\* always return.
C7_FixedDelay ==
    /\ (pc = "idle" /\ result # None) => delay = [tag |-> "Some", minutes |-> 15]
    /\ pc = "done" => ENABLED Reschedule

\* request_loop has returned after a failed cycle.
C7_Witness ==
    /\ pc = "idle"
    /\ result.tag = "Err"
    /\ delay = [tag |-> "Some", minutes |-> 15]

\* C8: a cycle that failed has given exactly one message, carrying the error,
\* to the sink when request_loop returns; a cycle that succeeded has given
\* none; nothing is reported while the cycle runs.
C8_FailureReported ==
    /\ pc # "idle" => reported = <<>>
    /\ (pc = "idle" /\ result.tag = "Err") =>
          /\ Len(reported) = 1
          /\ reported[1].text = "Unable to refresh recent commits"
          /\ reported[1].cause = result
    /\ (pc = "idle" /\ result.tag # "Err") => reported = <<>>

\* request_loop has returned after a cycle that failed on an insert, with one
\* message in the sink.
C8_Witness ==
    /\ pc = "idle"
    /\ result = Err("InsertIntoDatabase", NoPath)
    /\ Len(reported) = 1
    /\ delay # None

\* The positions of the stored records a query for the range is to return.
Matching(S, range) ==
    {i \in OwnPositions(S) : range.start <= S[i].timing /\ S[i].timing <= range.end}

\* C9: a query that returns Ok returns one summary for each stored record of
\* this plugin whose timing lies in the range and no other, in the store's
\* order, with the record's repository_name as title, its timing as time and its
\* commit payload as data.
C9_QueryResult ==
    (qReturn.tag = "Returned" /\ qReturn.value.tag = "Ok") =>
        LET m == Matching(store, qReturn.range)
            events == qReturn.value.events
            rank(i) == Cardinality({j \in m : j <= i})
        IN /\ Len(events) = Cardinality(m)
           /\ \A i \in m :
                /\ events[rank(i)].title = store[i].event.repository_name
                /\ events[rank(i)].time = store[i].timing
                /\ events[rank(i)].data = store[i].event

\* A query over a range that holds another plugin's record and two commits
\* has returned the two commits' summaries.
C9_Witness ==
    /\ qReturn.tag = "Returned"
    /\ qReturn.range = [start |-> 0, end |-> 40000]
    /\ qReturn.value.tag = "Ok"
    /\ Len(qReturn.value.events) = 2
    /\ Len(store) = 3

\* C10: a query whose find fails, or whose stream yields an error item, returns
\* an error and no summary of the items read before it; and no query changes
\* the store.
C10_QueryAllOrNothing ==
    /\ [](qReturn.tag = "Returned" =>
            LET n == Cardinality(Matching(store, qReturn.range))
            IN IF qReturn.failAt <= n
               THEN qReturn.value.tag = "Err" /\ DOMAIN qReturn.value = {"tag", "kind", "path"}
               ELSE qReturn.value.tag = "Ok")
    /\ [][qReturn'.tag = "Returned" => store' = store]_vars

\* The stream of a query failed at its second item, after one summary was
\* built, and the query returned the error.
C10_Witness ==
    /\ qReturn.tag = "Returned"
    /\ qReturn.failAt = 2
    /\ Cardinality(Matching(store, qReturn.range)) = 2
    /\ qReturn.value.tag = "Err"

\* A commit time the code's types represent: an offset of less than a day and
\* a number of milliseconds that fits the word and lies in chrono's range.
Representable(seconds, offsetMinutes) ==
    /\ -1440 < offsetMinutes /\ offsetMinutes < 1440
    /\ -MaxChronoMillis <= seconds * 1000 /\ seconds * 1000 <= MaxChronoMillis

\* C20: for a representable commit time, in either build, the instant computed
\* is seconds after the epoch whatever the offset is: shifted by the commit's
\* offset it is the commit's local wall-clock time, and any other representable
\* offset gives the same instant.
C20_TimeRoundTrip ==
    (norm # None /\ norm.out # None
     /\ Representable(norm.seconds, norm.offsetMinutes)) =>
        /\ norm.out.tag = "Some"
        /\ norm.out.utc = norm.seconds * 1000
        /\ norm.out.utc + norm.offsetMinutes * 60 * 1000
              = (norm.seconds + norm.offsetMinutes * 60) * 1000
        /\ \A o \in TimeOffsets :
              Representable(norm.seconds, o) =>
                 ToUtcBuild(norm.seconds, o, norm.overflowChecks) = norm.out

\* The normalizer has run on a commit made 30 seconds after the epoch in a
\* zone fourteen hours ahead of UTC.
C20_Witness ==
    /\ norm # None
    /\ norm.seconds = 30
    /\ norm.offsetMinutes = 840
    /\ norm.out = [tag |-> "Some", utc |-> 30000]

\* The directories whose repository holds the commit.
Holders(id) == {d \in Dirs : id \in hist[d]}

\* A record of this plugin for the commit, stored under the repository name.
Recorded(id, name) ==
    \E i \in OwnPositions(store) :
        /\ store[i].id = id
        /\ store[i].timing = SecondsOf(id) * 1000
        /\ store[i].event = [message |-> MessageOf(id), author |-> AuthorOf(id),
                             repository_name |-> name]

\* C11: after a cycle that returned Ok, every commit of every
\* directory has a record with its id, instant, message and author and the
\* repository_name of that directory.
C11_Complete ==
    (pc = "done" /\ result = Ok) =>
        \A d \in Dirs : \A id \in hist[d] : Recorded(id, d)

\* C11 up to shared ids: after a cycle that returned Ok, every commit of every directory
\* has a record with its id, instant, message and author, and the
\* repository_name of a directory that holds the commit: the directory it was
\* walked from, unless the id was stored before from the walk of another.
C11_CompleteUnderSomeHolder ==
    (pc = "done" /\ result = Ok) =>
        \A d \in Dirs : \A id \in hist[d] :
            \/ Recorded(id, d)
            \/ \E e \in Holders(id) \ {d} : Recorded(id, e)

\* A cycle has returned Ok over alpha, which holds a1 and a2, and beta, which
\* holds a1: a2 is recorded under alpha and a1 under beta alone.
C11_Witness ==
    /\ pc = "done"
    /\ result = Ok
    /\ hist = [alpha |-> {"a1", "a2"}, beta |-> {"a1"}]
    /\ Recorded("a2", "alpha")
    /\ Recorded("a1", "beta")
    /\ ~Recorded("a1", "alpha")

\* C12: every step leaves the records of the store in place and unchanged, and
\* at most appends records after them.
C12_AppendOnly ==
    [][/\ Len(store') >= Len(store)
       /\ SubSeq(store', 1, Len(store)) = store]_vars

\* A cycle failed in the middle of a batch insert of two records, of which one
\* was written; the record written before is still there.
C12_Witness ==
    /\ pc = "idle"
    /\ result = Err("InsertIntoDatabase", NoPath)
    /\ trace # <<>>
    /\ Len(trace[Len(trace)].recs) = 2
    /\ Len(store) = 2
    /\ store[1] = ForeignRecord

\* The store calls a step appends to the cycle's trace.
Added == SubSeq(trace', Len(trace) + 1, Len(trace'))

\* C18: a run of the dedup gate makes one store query, for its repository, and
\* at most one register_events call, with a batch that is not empty; it makes
\* the call exactly when the query succeeded and some walked id is not the id
\* of a stored record of this plugin.
C18_NoEmptyWrite ==
    [][(pc = "gate" /\ pc' # "gate") =>
        LET queryFailed == /\ result'.tag = "Err"
                           /\ result'.kind \in {"LoadCommitIds", "CollectExistingCommits"}
            absent == \E k \in 1..Len(commits) : commits[k].id \notin OwnIds(store)
        IN /\ Len(Added) \in {1, 2}
           /\ Added[1] = Event("find", cur, <<>>)
           /\ Len(Added) = 2 =>
                 /\ Added[2].op = "register_events"
                 /\ Added[2].path = cur
                 /\ Added[2].recs # <<>>
           /\ Len(Added) = 2 <=> (~queryFailed /\ absent)]_vars

\* The gate has run for alpha, whose two commits were stored before: one
\* query and no insert call.
C18_Witness ==
    /\ pc = "scan"
    /\ hist["alpha"] = {"a1", "a2"}
    /\ trace # <<>>
    /\ trace[Len(trace)] = Event("find", "alpha", <<>>)
    /\ InsertCalls(trace) = {}
    /\ OwnIds(store) = {"a1", "a2"}

\* The ids of the records a step appends to the store.
AppendedIds == {store'[i].id : i \in (Len(store) + 1)..Len(store')}

\* C19: what a successful run of the gate stores for a repository is
\* decided by the repository's commits and the records stored under its
\* repository_name: a commit is stored unless a record with its id and this
\* repository's name exists.
C19_Independent ==
    [][(pc = "gate" /\ pc' = "scan") =>
        AppendedIds =
            {commits[k].id : k \in
                {j \in 1..Len(commits) :
                    ~\E i \in OwnPositions(store) :
                        /\ store[i].id = commits[j].id
                        /\ store[i].event.repository_name = cur}}]_vars

\* C19 up to shared ids: what a successful run of the gate stores for a repository is
\* decided by the repository's commits and the ids this plugin has stored from
\* any directory: a commit is stored, under this repository's name, unless a
\* record with its id exists.  An id held by two directories is recorded once,
\* under the name of a directory that holds it.
C19_IndependentUpToSharedIds ==
    /\ [][(pc = "gate" /\ pc' = "scan") =>
            /\ AppendedIds = {commits[k].id : k \in 1..Len(commits)} \ OwnIds(store)
            /\ \A i \in (Len(store) + 1)..Len(store') :
                  store'[i].event.repository_name = cur]_vars
    /\ [](\A i \in OwnPositions(store) :
            /\ store[i].event.repository_name \in Dirs
            /\ store[i].id \in hist[store[i].event.repository_name])

\* The gate has run for alpha and stored nothing: its commit a1 was recorded
\* from beta's walk and there is no record under alpha's name.
C19_Witness ==
    /\ pc = "scan"
    /\ hist["alpha"] = {"a1"}
    /\ trace # <<>>
    /\ trace[Len(trace)] = Event("find", "alpha", <<>>)
    /\ \E i \in OwnPositions(store) :
          store[i].id = "a1" /\ store[i].event.repository_name = "beta"
    /\ ~\E i \in OwnPositions(store) : store[i].event.repository_name = "alpha"

\* The positions in the cycle's trace of the events of one kind for an entry.
Events(t, op, e) == {i \in 1..Len(t) : t[i].op = op /\ t[i].path = e}

\* Every commit of every repository is the commit of a record of this plugin.
AllPersisted == \A d \in Dirs : hist[d] \subseteq OwnIds(store)

\* A step in which update_commits returns an error.
CycleFailure ==
    /\ pc # "done"
    /\ pc' = "done"
    /\ result'.tag = "Err"

\* Within one cycle no repository is walked, queried or inserted more than once.
C13_OncePerCycle ==
    \A d \in Dirs : \A op \in {"spawn", "find", "register_events"} :
        Cardinality(Events(trace, op, d)) <= 1

\* C13: a cycle that returns Ok leaves every commit of every repository
\* persisted, also when the cycle before failed transiently; no repository is
\* walked, queried or inserted twice in a cycle; and when the failures stop,
\* then from some cycle on every commit of every repository is persisted.
C13_Retry ==
    /\ []((pc = "done" /\ result = Ok) => AllPersisted)
    /\ []C13_OncePerCycle
    /\ (<>[][~CycleFailure]_vars) => <>[]AllPersisted

\* A cycle failed at the insert for beta after alpha's commits were stored, and
\* the next cycle over the same repositories has stored beta's commit.
C13_Witness ==
    /\ pc = "done"
    /\ result = Ok
    /\ retrying
    /\ AllPersisted
    /\ \E i \in 1..Len(trace) :
         trace[i].op = "register_events" /\ trace[i].recs # <<>>

\* The errors of the dedup gate's store calls.
StoreErrors == {"LoadCommitIds", "CollectExistingCommits", "InsertIntoDatabase"}

\* C14: when update_commits has returned the error of a store call made for
\* one repository, the commits of every other walkable directory are in the
\* store, also of those enumerated after the failing one.
C14_StoreErrorIsolated ==
    (pc = "done" /\ result.tag = "Err" /\ result.kind \in StoreErrors) =>
        \A d \in Dirs \ {trace[Len(trace)].path} :
            Walkable(d) => hist[d] \subseteq OwnIds(store)

\* C15: while a walker thread runs, the asynchronous context that called
\* get_commits_in_repo is not blocked and can serve a query.
C15_WalkNeverBlocks ==
    worker = "running" =>
        /\ ~AsyncBlocked
        /\ ENABLED (\E range \in TimeRanges : Query(range, 0))

\* The walker thread protocol but for the number of spawns: a walker thread
\* lives only between its spawn and its join, so there is one at most; a
\* directory gets at most one walker in a cycle; the store calls for a
\* repository come after its walker's spawn and join and before the next spawn.
C16_Protocol ==
    /\ worker # "none" => (pc = "join" /\ trace[Len(trace)] = Event("spawn", cur, <<>>))
    /\ \A d \in Entries : Cardinality(Events(trace, "spawn", d)) <=
                             (IF d \in Dirs THEN 1 ELSE 0)
    /\ \A i \in 1..Len(trace) :
          trace[i].op # "spawn" =>
             \E j \in 1..(i - 1) :
                /\ trace[j] = Event("spawn", trace[i].path, <<>>)
                /\ \A k \in (j + 1)..i : trace[k].path = trace[i].path

\* C16: the protocol, and in a cycle whose scan did not fail exactly one
\* walker thread for each directory.
C16_WalkerProtocol ==
    /\ C16_Protocol
    /\ (pc = "done" /\ ~(result.tag = "Err" /\ result.kind \in ScanErrors)) =>
          \A d \in Dirs : Cardinality(Events(trace, "spawn", d)) = 1

\* A walker thread that panicked is an error of get_commits_in_repo: the join
\* returns it through the Result, no store call is made for the repository,
\* and request_loop can return.
C17_PanicIsError ==
    /\ [][(pc = "join" /\ pc' # "join" /\ walkRes = Panicked) =>
            /\ pc' = "done"
            /\ result'.tag = "Err"
            /\ store' = store
            /\ trace' = trace]_vars
    /\ [](pc = "done" => ENABLED Reschedule)

\* C17: a commit time outside the representable range ends the walker thread
\* abnormally, which the join turns into the error of get_commits_in_repo.
C17_OutOfRangeIsError ==
    (norm # None /\ norm.out # None
     /\ ~Representable(norm.seconds, norm.offsetMinutes)) =>
        norm.out = Panicked

====
